---- MODULE Spec2Model ----
(***************************************************************************)
(* arkham-translator: the translation pipeline of translator.py (main,     *)
(* process_file, translate_via_openai, rate_limit_sleep, Cache,            *)
(* apply_glossary_post) and json_to_csv of converter.py.                   *)
(*                                                                         *)
(* Spec is the pipeline, run after run on one cache; SpecRerun the same    *)
(* with the history of aborted runs kept.  SpecCache is Cache under the    *)
(* calls of process_file, SpecGlossary apply_glossary_post on drawn texts  *)
(* and glossaries, SpecConverter json_to_csv on drawn directory listings.  *)
(*                                                                         *)
(* A Python str is a sequence of one-character strings.  A JSON value is a *)
(* record [tag, chars]: tag "str" with the characters, tag "null" (None),  *)
(* tag "num" with the digits of the number.  A card (a JSON object) is a   *)
(* function from its keys to JSON values.                                  *)
(***************************************************************************)
EXTENDS Integers, Sequences, FiniteSets, TLC

\* ------------------------------------------------------------- values

Str(s) == [tag |-> "str", chars |-> s]
None == [tag |-> "null", chars |-> <<>>]
Num(digits) == [tag |-> "num", chars |-> digits]

\* isinstance(value, str)
IsStr(v) == v.tag = "str"

\* str(value): the identity on a str, "None" for None, the digits of a number
PyStr(v) == IF v.tag = "null" THEN <<"N", "o", "n", "e">> ELSE v.chars

\* Python truthiness of an Optional[str]: None and "" are falsy
Truthy(v) == v.tag = "str" /\ v.chars # <<>>

\* ------------------------------------------------------------ strings

\* str.isspace() of one character
Whitespace == {" ", "\n", "\t"}

\* the characters the regex class \w matches, among those the model uses
IsWordChar(c) == c \notin Whitespace \cup {":", ".", "[", "]", "-"}

RECURSIVE LStrip(_)
LStrip(s) ==
    IF s # <<>> /\ Head(s) \in Whitespace THEN LStrip(Tail(s)) ELSE s

RECURSIVE RStrip(_)
RStrip(s) ==
    IF s # <<>> /\ s[Len(s)] \in Whitespace
    THEN RStrip(SubSeq(s, 1, Len(s) - 1))
    ELSE s

\* str.strip()
Strip(s) == RStrip(LStrip(s))

\* ----------------------------------------------------------- constants

DEFAULT_MODEL == <<"g", "p", "t", "-", "5">>
MAX_RETRIES == 5
RETRY_BACKOFF == 2
TRANSLATABLE_FIELDS == <<"name", "subname", "text", "flavor", "traits">>

\* the characters of a field name, as f"{field}" formats it
FieldChars(field) ==
    CASE field = "name" -> <<"n", "a", "m", "e">>
      [] field = "subname" -> <<"s", "u", "b", "n", "a", "m", "e">>
      [] field = "text" -> <<"t", "e", "x", "t">>
      [] field = "flavor" -> <<"f", "l", "a", "v", "o", "r">>
      [] field = "traits" -> <<"t", "r", "a", "i", "t", "s">>

\* f"{field}_pt"
PtKey(field) ==
    CASE field = "name" -> "name_pt"
      [] field = "subname" -> "subname_pt"
      [] field = "text" -> "text_pt"
      [] field = "flavor" -> "flavor_pt"
      [] field = "traits" -> "traits_pt"

\* sha1(text): the digest stands for its preimage (no collisions)
sha1(text) == <<"sha1">> \o text

\* sha1(f"{model}:{field}:{src}")
CacheKey(m, field, src) ==
    sha1(m \o <<":">> \o FieldChars(field) \o <<":">> \o src)

\* ------------------------------------------------------------ glossary

\* main's fallback dictionary, a sequence of <<en, pt>> in insertion order
DefaultGlossary ==
    << << <<"C", "l", "u", "e">>, <<"P", "i", "s", "t", "a">> >>,
       << <<"C", "l", "u", "e", "s">>, <<"P", "i", "s", "t", "a", "s">> >>,
       << <<"D", "o", "o", "m">>, <<"P", "e", "r", "d", "i", "ç", "ã", "o">> >>,
       << <<"C", "h", "a", "o", "s", " ", "B", "a", "g">>,
          <<"S", "a", "c", "o", " ", "d", "o", " ", "C", "a", "o", "s">> >>,
       << <<"S", "k", "i", "l", "l", " ", "T", "e", "s", "t">>,
          <<"T", "e", "s", "t", "e", " ", "d", "e", " ",
            "P", "e", "r", "í", "c", "i", "a">> >>,
       << <<"E", "v", "a", "d", "e">>, <<"E", "v", "a", "d", "i", "r">> >>,
       << <<"E", "n", "g", "a", "g", "e">>, <<"E", "n", "g", "a", "j", "a", "r">> >>,
       << <<"S", "c", "e", "n", "a", "r", "i", "o">>,
          <<"C", "e", "n", "á", "r", "i", "o">> >>,
       << <<"C", "a", "m", "p", "a", "i", "g", "n">>,
          <<"C", "a", "m", "p", "a", "n", "h", "a">> >>,
       << <<"E", "x", "h", "a", "u", "s", "t">>, <<"E", "x", "a", "u", "r", "i", "r">> >>,
       << <<"E", "x", "h", "a", "u", "s", "t", "e", "d">>,
          <<"E", "x", "a", "u", "r", "i", "d", "o">> >> >>

\* the pattern without its lookarounds: re.escape(en) alone
MatchAtAnywhere(text, i, term) ==
    /\ i + Len(term) - 1 <= Len(text)
    /\ SubSeq(text, i, i + Len(term) - 1) = term

\* the pattern (?<!\w) term (?!\w) matches at position i of text
MatchAt(text, i, term) ==
    /\ i + Len(term) - 1 <= Len(text)
    /\ SubSeq(text, i, i + Len(term) - 1) = term
    /\ (i = 1 \/ ~IsWordChar(text[i - 1]))
    /\ (i + Len(term) > Len(text) \/ ~IsWordChar(text[i + Len(term)]))

\* re.sub(pattern, pt, text) from position i on: leftmost matches, left to
\* right, not overlapping; an empty term matches the empty string (pt is
\* taken literally: the translations of the model hold no backslash)
RECURSIVE ReSubFrom(_, _, _, _)
ReSubFrom(text, i, term, pt) ==
    IF i > Len(text)
    THEN IF term = <<>> /\ MatchAt(text, i, term) THEN pt ELSE <<>>
    ELSE IF term = <<>>
         THEN (IF MatchAt(text, i, term) THEN pt ELSE <<>>)
              \o <<text[i]>> \o ReSubFrom(text, i + 1, term, pt)
         ELSE IF MatchAt(text, i, term)
              THEN pt \o ReSubFrom(text, i + Len(term), term, pt)
              ELSE <<text[i]>> \o ReSubFrom(text, i + 1, term, pt)

\* sorted(glossary.items(), key=lambda kv: len(kv[0]), reverse=True): a
\* stable sort, so entries of equal length keep their insertion order.
\* InsertByLen puts entry e behind the entries of sorted that are as long
RECURSIVE InsertByLen(_, _)
InsertByLen(e, sorted) ==
    IF sorted = <<>> THEN <<e>>
    ELSE IF Len(Head(sorted)[1]) >= Len(e[1])
         THEN <<Head(sorted)>> \o InsertByLen(e, Tail(sorted))
         ELSE <<e>> \o sorted

RECURSIVE SortedFrom(_, _, _)
SortedFrom(g, i, sorted) ==
    IF i > Len(g) THEN sorted ELSE SortedFrom(g, i + 1, InsertByLen(g[i], sorted))

\* glossary.items() as it is, without sorted(...)
InsertionOrder(g) == g

SortedByLen(g) == SortedFrom(g, 1, <<>>)

RECURSIVE ApplyTerms(_, _)
ApplyTerms(text, terms) ==
    IF terms = <<>> THEN text
    ELSE ApplyTerms(ReSubFrom(text, 1, Head(terms)[1], Head(terms)[2]), Tail(terms))

apply_glossary_post(text, glossary) == ApplyTerms(text, SortedByLen(glossary))

\* -------------------------------------------------------------- inputs

Doom == <<"D", "o", "o", "m">>
Gain == <<"G", "a", "i", "n">>

\* cards of the source files: a field may be absent, None, a number, blank
CardA ==
    [code |-> Str(<<"1">>), name |-> Str(Doom), subname |-> None,
     text |-> Str(<<" ", " ">>), traits |-> Num(<<"7">>)]
CardB ==
    [code |-> Num(<<"2">>), name |-> Str(Doom), text |-> Str(Gain),
     text_pt |-> Str(<<"o", "l", "d">>)]
CardC ==
    [name |-> Str(<<>>), text |-> Str(Gain), flavor_pt |-> Str(<<"o", "l", "d">>)]

\* the files of <root>/source: kind is what json.loads makes of the text
\* ("invalid": it raises), words are the --packs words the name contains,
\* rank is the place of the path in sorted order
FileCore == [name |-> "core.json", rank |-> 1, words |-> {"core"},
             kind |-> "list", items |-> <<CardA, CardB>>]
FileBad == [name |-> "core_bad.json", rank |-> 2, words |-> {"core"},
            kind |-> "invalid", items |-> <<>>]
FileDict == [name |-> "dwl_dict.json", rank |-> 3, words |-> {"dwl"},
             kind |-> "dict", items |-> <<CardC>>]
FileDwl == [name |-> "dwl_list.json", rank |-> 4, words |-> {"dwl"},
            kind |-> "list", items |-> <<CardC>>]
SourceDir == {FileCore, FileBad, FileDict, FileDwl}

\* the command lines: --packs, --model, --dry-run, --rate
PacksFilters == {{}, {"core"}, {"dwl"}, {"tde"}}
Models == {DEFAULT_MODEL}
Rates == {0, 30}

\* what the service may answer, before .strip()
RawResponses == {<<" ">>, <<"D", "o", "o", "m", " ">>}

\* seconds after which the model stops telling elapsed times apart
MaxClock == 8
\* the longest time between two readings of the clock, sleeps apart
MaxLatency == 1

Min(a, b) == IF a < b THEN a ELSE b
Later(e, d) == Min(e + d, MaxClock)

\* -------------------------------------------------------------- Cache

\* the table cache: rows (key, src, tgt, model), key the primary key

\* Cache.get: SELECT tgt FROM cache WHERE key=?
CacheGet(c, key) ==
    IF \E r \in c : r.key = key
    THEN Str((CHOOSE r \in c : r.key = key).tgt)
    ELSE None

\* INSERT OR IGNORE: a row of the key stays as it is
CacheSetKeepsOld(c, key, src, tgt, m) ==
    IF \E r \in c : r.key = key
    THEN c
    ELSE c \cup {[key |-> key, src |-> src, tgt |-> tgt, model |-> m]}

\* Cache.set: INSERT OR REPLACE, committed at once (created_at, which no
\* code reads, is left out)
CacheSet(c, key, src, tgt, m) ==
    {r \in c : r.key # key} \cup {[key |-> key, src |-> src, tgt |-> tgt, model |-> m]}

\* ------------------------------------------------------------ helpers

\* is_empty without the strip: a blank string counts as text
is_empty_no_strip(value) == value.tag = "null" \/ (IsStr(value) /\ value.chars = <<>>)

\* is_empty(value)
is_empty(value) == value.tag = "null" \/ (IsStr(value) /\ Strip(value.chars) = <<>>)

\* card.get(key, "")
CardGet(card, key) == IF key \in DOMAIN card THEN card[key] ELSE Str(<<>>)

\* process_file: is_empty(src) or not isinstance(src, str)
FieldSkipped(src) == is_empty(src) \/ ~IsStr(src)

\* d[key] = value on a dict
DictPut(d, key, value) ==
    [k \in DOMAIN d \cup {key} |-> IF k = key THEN value ELSE d[k]]

\* card_out = {}: the keys of the card are lost
NewCardOutEmpty(card) == [k \in {} |-> None]

\* card_out = dict(card)
NewCardOut(card) == card

\* a single object taken for a list of one card, as json_to_csv does
IsListOrDict(file) == file.kind \in {"list", "dict"}

\* isinstance(data, list)
IsListData(file) == file.kind = "list"

\* find_json_files: the files a word of the filter occurs in, sorted
RECURSIVE SortedFiles(_)
SortedFiles(fs) ==
    IF fs = {} THEN <<>>
    ELSE LET f == CHOOSE x \in fs : \A y \in fs : x.rank <= y.rank
         IN  <<f>> \o SortedFiles(fs \ {f})

find_json_files(packs_filter) ==
    SortedFiles(IF packs_filter = {} THEN SourceDir
                ELSE {f \in SourceDir : f.words \cap packs_filter # {}})

\* a backoff that does not grow
SleepForConstant(a) == RETRY_BACKOFF

\* translate_via_openai: sleep_for = RETRY_BACKOFF * (2 ** (attempt - 1))
SleepFor(a) == RETRY_BACKOFF * (2 ^ (a - 1))

\* the call about to be made is not counted
rate_limit_sleep_late(rate_per_minute, actual_elapsed, calls_made) ==
    IF rate_per_minute <= 0 THEN 0
    ELSE LET ideal_elapsed == ((calls_made - 1) * 60) \div rate_per_minute
         IN  IF ideal_elapsed > actual_elapsed
             THEN ideal_elapsed - actual_elapsed
             ELSE 0

\* rate_limit_sleep: the seconds it sleeps when the clock reads actual_elapsed
\* after started_at (the rates of the model divide 60)
rate_limit_sleep(rate_per_minute, actual_elapsed, calls_made) ==
    IF rate_per_minute <= 0 THEN 0
    ELSE LET ideal_elapsed == (calls_made * 60) \div rate_per_minute
         IN  IF ideal_elapsed > actual_elapsed
             THEN ideal_elapsed - actual_elapsed
             ELSE 0

NotWritten == [written |-> FALSE, content |-> <<>>]
Written(content) == [written |-> TRUE, content |-> content]

\* the CSV under the same condition as the JSON
WriteCsvUnlessDry(dry, rows) == IF dry THEN [written |-> FALSE, content |-> <<>>]
                                ELSE [written |-> TRUE, content |-> rows]

\* process_file: the CSV is written whatever dry_run is
WriteCsv(dry, rows) == Written(rows)

\* process_file: if not dry_run: out_json.write_text(...)
WriteJson(dry, cards) == IF dry THEN NotWritten ELSE Written(cards)

\* --------------------------------------------------------------- state

VARIABLES
    cache,          \* the rows of the SQLite table; it outlives the runs
    firstWritten,   \* history: per key, the tgt of the first Cache.set
    model,          \* args.model
    dry_run,        \* args.dry_run
    rate_per_min,   \* args.rate
    json_files,     \* main: json_files
    pc,             \* where the run is
    raised,         \* the RuntimeError of translate_via_openai was raised
    fileIdx,        \* main: the place of jf in json_files
    stats,          \* main: what the last process_file returned
    totals,         \* main: totals
    data,           \* process_file: data
    out_cards,      \* process_file: out_cards
    csv_rows,       \* process_file: csv_rows
    calls,          \* process_file: calls
    skipped,        \* process_file: skipped
    cardIdx,        \* process_file: the place of card in data
    fieldIdx,       \* process_file: the place of field in TRANSLATABLE_FIELDS
    card_out,       \* process_file: card_out
    elapsed,        \* time.time() - start, up to MaxClock
    rateSlept,      \* the seconds the last rate_limit_sleep slept
    attempt,        \* translate_via_openai: attempt (0 outside a call)
    tries,          \* translate_via_openai: the attempts that did not return
    requests,       \* translate_via_openai: the requests the call has made
    keepHistory,    \* history: whether runKeys and abortedKeys are kept
    runKeys,        \* history: the keys this run has called Cache.set for
    abortedKeys,    \* history: the runKeys of the run before, if it crashed
    lastOp,         \* Cache alone: the last call of get or set and its result
    owner,          \* Cache alone: per key, the triple of the last set
    gText,          \* apply_glossary_post alone: text
    gGlossary,      \* apply_glossary_post alone: glossary, in dict order
    gOut,           \* apply_glossary_post alone: the value returned
    gAgain,         \* apply_glossary_post alone: the value returned for gOut
    gPc,            \* apply_glossary_post alone: the calls made so far
    cvListing,      \* json_to_csv: os.listdir(SOURCE_FOLDER)
    cvIdx,          \* json_to_csv: the place of filename in the listing
    cvRows,         \* json_to_csv: rows
    cvCsv,          \* json_to_csv: the content of OUTPUT_FILE
    cvPc,           \* json_to_csv: where the conversion is
    jsonWritten,    \* per file of the run, the translated JSON written
    csvWritten      \* per file of the run, the audit CSV written

cfg == <<model, dry_run, rate_per_min, json_files>>
store == <<cache, firstWritten>>
mainv == <<fileIdx, stats, totals>>
loc == <<data, out_cards, csv_rows, calls, skipped, cardIdx, fieldIdx, card_out>>
clock == <<elapsed, rateSlept>>
retry == <<attempt, tries, requests>>
hist == <<keepHistory, runKeys, abortedKeys>>
outs == <<jsonWritten, csvWritten>>
pipe == <<cfg, store, mainv, loc, clock, retry, outs, pc, raised, hist>>
cachev == <<lastOp, owner>>
glossv == <<gText, gGlossary, gOut, gAgain, gPc>>
convv == <<cvListing, cvIdx, cvRows, cvCsv, cvPc>>
side == <<cachev, glossv, convv>>
vars == <<pipe, side>>

EmptyDict == [k \in {} |-> None]
NoStats == [translated |-> 0, skipped |-> 0]

PipeInit ==
    /\ cache = {}
    /\ firstWritten = {}
    /\ model = DEFAULT_MODEL
    /\ dry_run = FALSE
    /\ rate_per_min = 0
    /\ json_files = <<>>
    /\ pc = "idle"
    /\ raised = FALSE
    /\ fileIdx = 0
    /\ stats = NoStats
    /\ totals = NoStats
    /\ data = <<>>
    /\ out_cards = <<>>
    /\ csv_rows = <<>>
    /\ calls = 0
    /\ skipped = 0
    /\ cardIdx = 0
    /\ fieldIdx = 0
    /\ card_out = EmptyDict
    /\ elapsed = 0
    /\ rateSlept = 0
    /\ attempt = 0
    /\ tries = <<>>
    /\ requests = 0
    /\ runKeys = {}
    /\ abortedKeys = {}
    /\ jsonWritten = <<>>
    /\ csvWritten = <<>>

\* no call of Cache outside process_file
NoOp == [op |-> "none", m |-> <<>>, field |-> "", src |-> <<>>,
         tgt |-> <<>>, result |-> None]
CacheIdle ==
    /\ lastOp = NoOp
    /\ owner = {}

\* no call of apply_glossary_post outside process_file
GlossIdle ==
    /\ gText = <<>>
    /\ gGlossary = <<>>
    /\ gOut = <<>>
    /\ gAgain = <<>>
    /\ gPc = "idle"

\* json_to_csv is not run
ConvIdle ==
    /\ cvListing = <<>>
    /\ cvIdx = 0
    /\ cvRows = <<>>
    /\ cvCsv = NotWritten
    /\ cvPc = "idle"

\* translator.py before its first run
Init ==
    /\ PipeInit
    /\ keepHistory = FALSE
    /\ CacheIdle
    /\ GlossIdle
    /\ ConvIdle

\* the file, card, field and source text the run is at
CurFile == json_files[fileIdx]
CurCard == data[cardIdx]
CurField == TRANSLATABLE_FIELDS[fieldIdx]
CurSrc == CardGet(CurCard, CurField)
CurKey == CacheKey(model, CurField, CurSrc.chars)

\* ---------------------------------------------------------------- main

\* main, to the loop over json_files: a run starts on the cache the runs
\* before it left; without a file to translate it exits
main_start(packs, m, dry, rate) ==
    /\ pc \in {"idle", "done", "crashed", "exited"}
    /\ model' = m
    /\ dry_run' = dry
    /\ rate_per_min' = rate
    /\ json_files' = find_json_files(packs)
    /\ pc' = IF json_files' = <<>> THEN "exited" ELSE "main"
    /\ raised' = FALSE
    /\ fileIdx' = 1
    /\ stats' = NoStats
    /\ totals' = NoStats
    /\ data' = <<>>
    /\ out_cards' = <<>>
    /\ csv_rows' = <<>>
    /\ calls' = 0
    /\ skipped' = 0
    /\ cardIdx' = 0
    /\ fieldIdx' = 0
    /\ card_out' = EmptyDict
    /\ elapsed' = 0
    /\ rateSlept' = 0
    /\ attempt' = 0
    /\ tries' = <<>>
    /\ requests' = 0
    /\ runKeys' = {}
    /\ abortedKeys' = IF pc = "crashed" THEN runKeys ELSE {}
    /\ UNCHANGED <<side, keepHistory>>
    /\ jsonWritten' = [i \in 1..Len(json_files') |-> NotWritten]
    /\ csvWritten' = [i \in 1..Len(json_files') |-> NotWritten]
    /\ UNCHANGED store

\* main: totals[...] += stats[...], and on to the next file
MainAccount(st) ==
    /\ stats' = st
    /\ totals' = [translated |-> totals.translated + st.translated,
                  skipped |-> totals.skipped + st.skipped]
    /\ fileIdx' = fileIdx + 1
    /\ pc' = "main"

\* process_file: json.loads raises, return {"translated": 0, "skipped": 0}
process_file_unreadable ==
    /\ pc = "main"
    /\ fileIdx <= Len(json_files)
    /\ CurFile.kind = "invalid"
    /\ MainAccount(NoStats)
    /\ UNCHANGED <<side, hist, cfg, store, loc, clock, retry, outs, raised>>

\* process_file: data is not a list, return {"translated": 0, "skipped": 0}
process_file_not_list ==
    /\ pc = "main"
    /\ fileIdx <= Len(json_files)
    /\ CurFile.kind # "invalid"
    /\ ~IsListData(CurFile)
    /\ MainAccount(NoStats)
    /\ UNCHANGED <<side, hist, cfg, store, loc, clock, retry, outs, raised>>

\* process_file: data is a list; the locals before the loop over the cards
process_file_begin ==
    /\ pc = "main"
    /\ fileIdx <= Len(json_files)
    /\ CurFile.kind # "invalid"
    /\ IsListData(CurFile)
    /\ data' = CurFile.items
    /\ out_cards' = <<>>
    /\ csv_rows' = <<>>
    /\ calls' = 0
    /\ skipped' = 0
    /\ elapsed' = 0
    /\ rateSlept' = 0
    /\ cardIdx' = 1
    /\ fieldIdx' = 1
    /\ card_out' = IF data' = <<>> THEN EmptyDict ELSE NewCardOut(data'[1])
    /\ pc' = IF data' = <<>> THEN "write" ELSE "field"
    /\ UNCHANGED <<side, hist, cfg, store, mainv, retry, outs, raised>>

\* main: the loop over json_files is over
main_done ==
    /\ pc = "main"
    /\ fileIdx > Len(json_files)
    /\ pc' = "done"
    /\ UNCHANGED <<side, hist, cfg, store, mainv, loc, clock, retry, outs, raised>>

\* -------------------------------------------------------- process_file

\* the end of one pass of the loop over TRANSLATABLE_FIELDS, card_out being
\* co: the next field, or out_cards.append(card_out) and the next card
AdvanceField(co) ==
    IF fieldIdx < Len(TRANSLATABLE_FIELDS)
    THEN /\ fieldIdx' = fieldIdx + 1
         /\ card_out' = co
         /\ pc' = "field"
         /\ UNCHANGED <<out_cards, cardIdx>>
    ELSE /\ out_cards' = Append(out_cards, co)
         /\ cardIdx' = cardIdx + 1
         /\ fieldIdx' = 1
         /\ card_out' = IF cardIdx < Len(data)
                        THEN NewCardOut(data[cardIdx + 1])
                        ELSE EmptyDict
         /\ pc' = IF cardIdx < Len(data) THEN "field" ELSE "write"

\* card_out[f"{field}_pt"] = translated; csv_rows.append({...})
RecordField(translated) ==
    /\ csv_rows' = Append(csv_rows,
                          [code |-> PyStr(CardGet(CurCard, "code")),
                           field |-> CurField,
                           en |-> CurSrc.chars,
                           pt |-> translated,
                           pack_file |-> CurFile.name])
    /\ AdvanceField(DictPut(card_out, PtKey(CurField), Str(translated)))

\* the field is absent, not a str or blank: skipped += 1; continue
field_skip ==
    /\ pc = "field"
    /\ FieldSkipped(CurSrc)
    /\ skipped' = skipped + 1
    /\ AdvanceField(card_out)
    /\ UNCHANGED <<side, hist, cfg, store, mainv, data, csv_rows, calls, clock,
                   retry, outs, raised>>

\* cached = cache.get(key); if cached: translated = cached
field_cache_hit ==
    /\ pc = "field"
    /\ ~FieldSkipped(CurSrc)
    /\ Truthy(CacheGet(cache, CurKey))
    /\ RecordField(CacheGet(cache, CurKey).chars)
    /\ UNCHANGED <<side, hist, cfg, store, mainv, data, calls, skipped, clock,
                   retry, outs, raised>>

\* else: calls += 1; rate_limit_sleep(...); translate_via_openai is entered.
\* The clock is read only with a positive rate; lat is the time since the
\* reading before
field_cache_miss(lat) ==
    /\ pc = "field"
    /\ ~FieldSkipped(CurSrc)
    /\ ~Truthy(CacheGet(cache, CurKey))
    /\ rate_per_min <= 0 => lat = 0
    /\ calls' = calls + 1
    /\ rateSlept' = rate_limit_sleep(rate_per_min, Later(elapsed, lat), calls')
    /\ elapsed' = Later(Later(elapsed, lat), rateSlept')
    /\ attempt' = 1
    /\ tries' = <<>>
    /\ requests' = 0
    /\ pc' = "responses"
    /\ UNCHANGED <<side, hist, cfg, store, mainv, data, out_cards, csv_rows, skipped,
                   cardIdx, fieldIdx, card_out, outs, raised>>

\* the loops are over: the JSON unless dry_run, the CSV, return to main
write_outputs ==
    /\ pc = "write"
    /\ jsonWritten' = [jsonWritten EXCEPT ![fileIdx] = WriteJson(dry_run, out_cards)]
    /\ csvWritten' = [csvWritten EXCEPT ![fileIdx] = WriteCsv(dry_run, csv_rows)]
    /\ MainAccount([translated |-> Len(csv_rows), skipped |-> skipped])
    /\ UNCHANGED <<side, hist, cfg, store, loc, clock, retry, raised>>

\* ------------------------------------------------ translate_via_openai

\* main catches the error and goes on to the next file
UnwindCaughtByMain ==
    /\ pc' = "main"
    /\ fileIdx' = fileIdx + 1
    /\ UNCHANGED <<stats, totals>>

\* no handler in process_file or main: the run ends with the error
Unwind ==
    /\ pc' = "crashed"
    /\ UNCHANGED mainv

\* while True in the place of for attempt in range(1, MAX_RETRIES + 1)
NextAttemptForever ==
    /\ attempt' = attempt
    /\ pc' = "responses"
    /\ UNCHANGED <<mainv, raised>>

\* the attempt did not return: the next pass of the loop over the attempts,
\* or raise RuntimeError after the last
NextAttempt ==
    IF attempt < MAX_RETRIES
    THEN /\ attempt' = attempt + 1
         /\ pc' = "responses"
         /\ UNCHANGED <<mainv, raised>>
    ELSE /\ attempt' = attempt
         /\ raised' = TRUE
         /\ Unwind

\* translate_via_openai returns raw.strip(); process_file applies the
\* glossary, sets the cache and records the field
TranslationReturned(raw) ==
    \E translated \in {apply_glossary_post(Strip(raw), DefaultGlossary)} :
        /\ cache' = CacheSet(cache, CurKey, CurSrc.chars, translated, model)
        /\ firstWritten' =
               IF \E w \in firstWritten : w.key = CurKey
               THEN firstWritten
               ELSE firstWritten \cup {[key |-> CurKey, tgt |-> translated]}
        /\ RecordField(translated)
        /\ runKeys' = IF keepHistory THEN runKeys \cup {CurKey} ELSE runKeys
        /\ attempt' = 0
        /\ tries' = <<>>
        /\ requests' = 0
        /\ UNCHANGED <<side, keepHistory, abortedKeys, cfg, mainv, data, calls,
                       skipped, clock, outs, raised>>

\* client.responses.create answers, resp has output_text
responses_output_text(raw) ==
    /\ pc = "responses"
    /\ TranslationReturned(raw)

\* resp has no output_text and has choices
responses_choices(raw) ==
    /\ pc = "responses"
    /\ TranslationReturned(raw)

\* resp has neither: the try block ends without a return and without an
\* exception, so no sleep
responses_no_text ==
    /\ pc = "responses"
    /\ requests' = requests + 1
    /\ tries' = Append(tries, [attempt |-> attempt, outcome |-> "notext", slept |-> 0])
    /\ NextAttempt
    /\ UNCHANGED <<side, hist, cfg, store, loc, clock, outs>>

\* the inner try raises: fall back to client.chat.completions.create
responses_raise ==
    /\ pc = "responses"
    /\ pc' = "chat"
    /\ requests' = requests + 1
    /\ UNCHANGED <<side, hist, cfg, store, mainv, loc, clock, attempt, tries, outs, raised>>

\* the fallback answers
chat_text(raw) ==
    /\ pc = "chat"
    /\ TranslationReturned(raw)

\* the fallback raises too: time.sleep(sleep_for)
chat_raise ==
    /\ pc = "chat"
    /\ requests' = requests + 1
    /\ tries' = Append(tries, [attempt |-> attempt, outcome |-> "raised",
                               slept |-> SleepFor(attempt)])
    /\ elapsed' = Later(elapsed, SleepFor(attempt))
    /\ NextAttempt
    /\ UNCHANGED <<side, hist, cfg, store, loc, rateSlept, outs>>

\* ------------------------------------------------------- specification

Next ==
    \/ \E packs \in PacksFilters, m \in Models, dry \in BOOLEAN, rate \in Rates :
           main_start(packs, m, dry, rate)
    \/ process_file_unreadable
    \/ process_file_not_list
    \/ process_file_begin
    \/ main_done
    \/ field_skip
    \/ field_cache_hit
    \/ \E lat \in 0..MaxLatency : field_cache_miss(lat)
    \/ write_outputs
    \/ \E raw \in RawResponses : responses_output_text(raw)
    \/ \E raw \in RawResponses : responses_choices(raw)
    \/ responses_no_text
    \/ responses_raise
    \/ \E raw \in RawResponses : chat_text(raw)
    \/ chat_raise

Spec == Init /\ [][Next]_vars

\* --------------------------------------------------- the claims' words

FieldSet == {TRANSLATABLE_FIELDS[i] : i \in 1..Len(TRANSLATABLE_FIELDS)}

\* the field of the card is absent, not a string, or blank after trimming
Skippable(card, field) ==
    \/ field \notin DOMAIN card
    \/ card[field].tag # "str"
    \/ Strip(card[field].chars) = <<>>

\* the (record, translatable field) pairs of a file that are not
\* skippable, in the order of the file, from pair (i, fi) on: for each the
\* code, the field, the source text and the file
RECURSIVE PairsFrom(_, _, _)
PairsFrom(file, i, fi) ==
    IF i > Len(file.items) THEN <<>>
    ELSE LET rest == IF fi < Len(TRANSLATABLE_FIELDS)
                     THEN PairsFrom(file, i, fi + 1)
                     ELSE PairsFrom(file, i + 1, 1)
             card == file.items[i]
             field == TRANSLATABLE_FIELDS[fi]
         IN  IF Skippable(card, field) THEN rest
             ELSE <<[code |-> IF "code" \in DOMAIN card
                              THEN PyStr(card["code"]) ELSE <<>>,
                     field |-> field,
                     en |-> card[field].chars,
                     pack_file |-> file.name]>> \o rest

Pairs(file) == PairsFrom(file, 1, 1)

SkippableCount(file) ==
    Cardinality({p \in (1..Len(file.items)) \X FieldSet :
                     Skippable(file.items[p[1]], p[2])})

\* a row without its target text
RowPair(row) ==
    [code |-> row.code, field |-> row.field, en |-> row.en, pack_file |-> row.pack_file]

\* a translation request is in flight
Requesting == pc \in {"responses", "chat"}

\* process_file has returned normally for file j of the run
Returned(j) == j \in 1..Len(json_files) /\ j < fileIdx

\* ---------------------------------------------------------------- C1

\* C1 (as claimed): once a (model, field, text) has been translated and
\* stored, no request is issued for it again, and every audit row of it
\* holds the target text stored the first time.
C1_StoredIsNeverRequestedAgain ==
    \A w \in firstWritten :
        /\ Requesting => CurKey # w.key
        /\ \A i \in 1..Len(csv_rows) :
               CacheKey(model, csv_rows[i].field, csv_rows[i].en) = w.key
                   => csv_rows[i].pt = w.tgt

\* ---------------------------------------------------------------- C2

\* C2: when translate_via_openai ends with its terminal error, every one
\* of exactly MAX_RETRIES attempts has failed, each backoff sleep lasted
\* RETRY_BACKOFF * 2^(attempt-1) seconds, the sleeps grow strictly from one
\* to the next, and the run is at the error; while a call is running it has
\* failed fewer than MAX_RETRIES times.
C2_RetryExhaustion ==
    /\ raised =>
           /\ pc = "crashed"
           /\ Len(tries) = MAX_RETRIES
           /\ \A i \in 1..Len(tries) : tries[i].attempt = i
           /\ \A i \in 1..Len(tries) :
                  tries[i].outcome = "raised"
                      => tries[i].slept = RETRY_BACKOFF * (2 ^ (i - 1))
           /\ \A i, j \in 1..Len(tries) :
                  (i < j /\ tries[i].outcome = "raised" /\ tries[j].outcome = "raised")
                      => tries[i].slept < tries[j].slept
    /\ Requesting => (attempt <= MAX_RETRIES /\ Len(tries) = attempt - 1)
    /\ pc = "crashed" => raised

\* C2 witness: a call has ended with the error after five attempts that
\* all raised, with five sleeps
C2_Witness ==
    /\ raised
    /\ Len(tries) = MAX_RETRIES
    /\ \A i \in 1..Len(tries) : tries[i].outcome = "raised"

\* ---------------------------------------------------------------- C3

\* C3 (as claimed): the terminal error comes only after MAX_RETRIES
\* attempts that obtained no response; an attempt that obtains a response
\* returns, so no attempt that obtained one is among those that did not.
C3_ResponseIsReturned ==
    /\ raised => Len(tries) = MAX_RETRIES
    /\ \A i \in 1..Len(tries) : tries[i].outcome # "notext"

\* ---------------------------------------------------------------- C4

\* C4: when process_file has returned for a file that is a list of
\* records, skipped is the number of (record, translatable field) pairs
\* whose field is absent, not a string or blank after trimming, the audit
\* CSV has exactly one row for each other pair, in order, translated is
\* their number, and translated + skipped = 5 x (number of records).
C4_SkippedAndTranslated ==
    (Returned(fileIdx - 1) /\ json_files[fileIdx - 1].kind = "list") =>
        LET file == json_files[fileIdx - 1]
            rows == csvWritten[fileIdx - 1].content
        IN  /\ stats.skipped = SkippableCount(file)
            /\ csvWritten[fileIdx - 1].written
            /\ Len(rows) = Len(Pairs(file))
            /\ \A i \in 1..Len(rows) : RowPair(rows[i]) = Pairs(file)[i]
            /\ stats.translated = Len(rows)
            /\ stats.translated + stats.skipped = 5 * Len(file.items)

\* C4 witness: process_file has returned for a file with a blank, a None,
\* a numeric and an absent field, and with fields it translated
C4_Witness ==
    /\ Returned(fileIdx - 1)
    /\ json_files[fileIdx - 1] = FileCore
    /\ stats.skipped = 7
    /\ stats.translated = 3

\* ---------------------------------------------------------------- C5

\* C5 (as claimed): once a cache key has been written, a get of that key
\* returns the value first written.
C5_CacheValueNeverChanges ==
    \A w \in firstWritten : CacheGet(cache, w.key) = Str(w.tgt)

\* ---------------------------------------------------------------- C6

\* C6: once a translation has exhausted its retries the run is at the
\* error and stays there: neither the JSON nor the CSV of the file it was
\* in, nor of any later file of the run, has been written.
C6_ExhaustionStopsTheRun ==
    raised =>
        /\ pc = "crashed"
        /\ \A j \in fileIdx..Len(json_files) :
               ~jsonWritten[j].written /\ ~csvWritten[j].written

\* C6 witness: the error in a file that has a later file after it, after
\* a field of the file was translated
C6_Witness ==
    /\ raised
    /\ fileIdx < Len(json_files)
    /\ csv_rows # <<>>

\* ---------------------------------------------------------------- C7

\* C7: while the k-th translation call of a file is running, with a
\* positive rate the time elapsed since the file's start is at least
\* k * (60 / rate) (a time the clock of the model tells apart); with a rate
\* of 0 or less rate_limit_sleep slept no time.
C7_RateLimit ==
    /\ (Requesting /\ rate_per_min > 0) =>
           /\ elapsed * rate_per_min >= calls * 60
           /\ calls * 60 <= MaxClock * rate_per_min
    /\ rate_per_min <= 0 => rateSlept = 0

\* C7 witness: the second call of a file begins right after a sleep of
\* rate_limit_sleep
C7_Witness ==
    /\ pc = "responses"
    /\ attempt = 1
    /\ rate_per_min > 0
    /\ calls = 2
    /\ rateSlept > 0

\* ---------------------------------------------------------------- C8

\* C8: the step of main at a file that is not valid JSON or not a list
\* returns 0 translated and 0 skipped, leaves the cache and the written
\* outputs as they are, starts no translation call, and leaves main at the
\* next file.
C8_BadFileIsSkipped ==
    [][(/\ pc = "main"
        /\ fileIdx <= Len(json_files)
        /\ json_files[fileIdx].kind # "list")
          => /\ stats' = NoStats
             /\ totals' = totals
             /\ cache' = cache
             /\ jsonWritten' = jsonWritten
             /\ csvWritten' = csvWritten
             /\ calls' = calls
             /\ pc' = "main"
             /\ fileIdx' = fileIdx + 1]_vars

\* C8 witness: main is at a file, having skipped a top-level object before
C8_Witness ==
    /\ pc = "main"
    /\ fileIdx > 1
    /\ fileIdx <= Len(json_files)
    /\ json_files[fileIdx - 1].kind = "dict"
    /\ stats = NoStats

\* ---------------------------------------------------------------- C9

\* the _pt keys of the fields of the card that are not skippable
PtKeys(card) == {PtKey(f) : f \in {g \in FieldSet : ~Skippable(card, g)}}

\* the input of the file being processed is as it was read
InputUnmodified ==
    pc \in {"field", "responses", "chat", "write"} => data = CurFile.items

\* C9 (as claimed): every output record holds every key of its input
\* record with the original value, plus a _pt key for exactly the fields
\* that were not skipped; the input record is not modified.
C9_OutputKeepsEveryValue ==
    /\ InputUnmodified
    /\ \A i \in 1..Len(out_cards) :
           /\ DOMAIN out_cards[i] = DOMAIN data[i] \cup PtKeys(data[i])
           /\ \A k \in DOMAIN data[i] : out_cards[i][k] = data[i][k]

\* the place among the audit rows of a file of the row of field fi of
\* record i
RowOf(items, i, fi) ==
    Cardinality({p \in (1..i) \X (1..Len(TRANSLATABLE_FIELDS)) :
                     /\ p[1] < i \/ p[2] <= fi
                     /\ ~Skippable(items[p[1]], TRANSLATABLE_FIELDS[p[2]])})

\* C9 (amended): every output record holds the keys of its input record
\* and the _pt keys of the fields that were not skipped, and no other; a
\* _pt key of a field that was not skipped holds the target text of the
\* field's audit row, also when the input record had that key; every other
\* key holds the value of the input record; the input record is not
\* modified.
C9_OutputRecord ==
    /\ InputUnmodified
    /\ \A i \in 1..Len(out_cards) :
           /\ DOMAIN out_cards[i] = DOMAIN data[i] \cup PtKeys(data[i])
           /\ \A k \in DOMAIN data[i] \ PtKeys(data[i]) : out_cards[i][k] = data[i][k]
           /\ \A fi \in 1..Len(TRANSLATABLE_FIELDS) :
                  ~Skippable(data[i], TRANSLATABLE_FIELDS[fi]) =>
                      /\ RowOf(data, i, fi) <= Len(csv_rows)
                      /\ out_cards[i][PtKey(TRANSLATABLE_FIELDS[fi])]
                             = Str(csv_rows[RowOf(data, i, fi)].pt)

\* C9 witness: an output record whose input record had the _pt key of a
\* field that was translated
C9_Witness ==
    \E i \in 1..Len(out_cards) :
        /\ "text_pt" \in DOMAIN data[i]
        /\ "text_pt" \in PtKeys(data[i])
        /\ out_cards[i]["text_pt"] # data[i]["text_pt"]

\* --------------------------------------------------------------- C10

\* C10: for every file process_file has returned for, a list of records,
\* the audit CSV is written whatever dry_run is, with one row per pair
\* that is not skippable; the JSON is written exactly when dry_run is off;
\* for the file just returned the CSV holds the rows process_file
\* accumulated and the JSON, if written, the output records.
C10_DryRun ==
    /\ \A j \in 1..Len(json_files) :
           (Returned(j) /\ json_files[j].kind = "list") =>
               /\ csvWritten[j].written
               /\ Len(csvWritten[j].content) = Len(Pairs(json_files[j]))
               /\ jsonWritten[j].written = ~dry_run
    /\ (Returned(fileIdx - 1) /\ json_files[fileIdx - 1].kind = "list") =>
           /\ csvWritten[fileIdx - 1].content = csv_rows
           /\ ~dry_run => jsonWritten[fileIdx - 1].content = out_cards

\* C10 witness: a dry run has returned for a file with translated fields
C10_Witness ==
    /\ dry_run
    /\ Returned(fileIdx - 1)
    /\ json_files[fileIdx - 1].kind = "list"
    /\ csvWritten[fileIdx - 1].written
    /\ Len(csvWritten[fileIdx - 1].content) = 3
    /\ ~jsonWritten[fileIdx - 1].written


\* ---------------------------------------------------------- Cache alone

\* the cache under the calls process_file makes, whatever the run: a model
\* name is any string of --model, a source text any string of a card
KeyTriples ==
    {[m |-> DEFAULT_MODEL, field |-> "name",
      src |-> FieldChars("text") \o <<":">> \o Gain],
     [m |-> DEFAULT_MODEL \o <<":">> \o FieldChars("name"), field |-> "text",
      src |-> Gain],
     [m |-> DEFAULT_MODEL, field |-> "text", src |-> Gain],
     [m |-> DEFAULT_MODEL, field |-> "name", src |-> Doom]}

KeyTargets == {<<"x">>, <<"y">>}

\* process_file: key = sha1(f"{model}:{field}:{src}"); cached = cache.get(key)
cache_get(t) ==
    /\ lastOp' = [op |-> "get", m |-> t.m, field |-> t.field, src |-> t.src,
                  tgt |-> <<>>,
                  result |-> CacheGet(cache, CacheKey(t.m, t.field, t.src))]
    /\ UNCHANGED <<pipe, owner, glossv, convv>>

\* process_file: cache.set(key, src, translated, model); owner keeps, per
\* key, what the last set was called with, and lastOp.result what a get of
\* the key returned before the set
cache_set(t, tgt) ==
    /\ cache' = CacheSet(cache, CacheKey(t.m, t.field, t.src), t.src, tgt, t.m)
    /\ owner' = {o \in owner : o.key # CacheKey(t.m, t.field, t.src)}
                 \cup {[key |-> CacheKey(t.m, t.field, t.src), m |-> t.m,
                        field |-> t.field, src |-> t.src, tgt |-> tgt]}
    /\ lastOp' = [op |-> "set", m |-> t.m, field |-> t.field, src |-> t.src,
                  tgt |-> tgt, result |-> CacheGet(cache, CacheKey(t.m, t.field, t.src))]
    /\ UNCHANGED <<cfg, firstWritten, mainv, loc, clock, retry, outs, pc, raised,
                   hist, glossv, convv>>

CacheNext ==
    \/ \E t \in KeyTriples : cache_get(t)
    \/ \E t \in KeyTriples, tgt \in KeyTargets : cache_set(t, tgt)

SpecCache == Init /\ [][CacheNext]_vars

\* ------------------------------------------------------------ claim C11

\* the key of the last call
LastKey == CacheKey(lastOp.m, lastOp.field, lastOp.src)

\* C11: get returns the target of the last set of its key (nothing for a
\* key never set); however often a key is set, the cache holds exactly one
\* entry for it, with the target of the last set, and the entries of the
\* other keys are what their own last set left
C11_LastWriteWins ==
    /\ \A o \in owner :
           /\ Cardinality({r \in cache : r.key = o.key}) = 1
           /\ \A r \in cache :
                  r.key = o.key => r.tgt = o.tgt /\ r.src = o.src /\ r.model = o.m
    /\ \A r \in cache : \E o \in owner : o.key = r.key
    /\ lastOp.op = "get" =>
           lastOp.result = IF \E o \in owner : o.key = LastKey
                           THEN Str((CHOOSE o \in owner : o.key = LastKey).tgt)
                           ELSE None

\* a key that held "x" is set to "y", with another key in the cache
C11_Witness ==
    /\ lastOp.op = "set"
    /\ lastOp.result = Str(<<"x">>)
    /\ lastOp.tgt = <<"y">>
    /\ CacheGet(cache, LastKey) = Str(<<"y">>)
    /\ \E r \in cache : r.key # LastKey


\* -------------------------------------------- apply_glossary_post alone

\* the longest text and the longest glossary drawn
MaxTextLen == 4
MaxEntries == 2

\* a letter, another letter and a character that is not \w
TextAlphabet == {"a", "b", " "}

Doomsday == Doom \o <<"s", "d", "a", "y">>
DoomsdayDoom == Doomsday \o <<" ">> \o Doom

\* text: what translate_via_openai returned
GlossTexts ==
    UNION {[1..n -> TextAlphabet] : n \in 0..MaxTextLen} \cup {Doomsday, DoomsdayDoom}

\* entries of a glossary file: a word, a word whose translation is another
\* term, and two terms of two words that overlap each other and the words
EntryPool ==
    {<< <<"a">>, <<"x">> >>,
     << <<"b">>, <<"a">> >>,
     << <<"a", " ", "b">>, <<"y">> >>,
     << <<"b", " ", "a">>, <<"z">> >>}

\* glossary: a dict, so no term twice, in the order of the file; or main's
\* fallback
Glossaries ==
    {g \in UNION {[1..n -> EntryPool] : n \in 0..MaxEntries} :
        \A i, j \in 1..Len(g) : i # j => g[i][1] # g[j][1]}
    \cup {DefaultGlossary}

\* a text and a glossary, before the call
GlossInit ==
    /\ PipeInit
    /\ keepHistory = FALSE
    /\ CacheIdle
    /\ ConvIdle
    /\ gText \in GlossTexts
    /\ gGlossary \in Glossaries
    /\ gOut = <<>>
    /\ gAgain = <<>>
    /\ gPc = "idle"

\* apply_glossary_post(text, glossary)
gloss_apply ==
    /\ gPc = "idle"
    /\ gOut' = apply_glossary_post(gText, gGlossary)
    /\ gPc' = "once"
    /\ UNCHANGED <<pipe, cachev, convv, gText, gGlossary, gAgain>>

\* apply_glossary_post(out, glossary), out being what the first call returned
gloss_apply_again ==
    /\ gPc = "once"
    /\ gAgain' = apply_glossary_post(gOut, gGlossary)
    /\ gPc' = "twice"
    /\ UNCHANGED <<pipe, cachev, convv, gText, gGlossary, gOut>>

GlossNext ==
    \/ gloss_apply
    \/ gloss_apply_again

SpecGlossary == GlossInit /\ [][GlossNext]_vars

\* ------------------------------------------------------------ claim C12

\* term occurs in text at position i
OccursAt(text, i, term) ==
    /\ i + Len(term) - 1 <= Len(text)
    /\ \A k \in 1..Len(term) : text[i + k - 1] = term[k]

TermIn(text, term) == \E i \in 1..Len(text) : OccursAt(text, i, term)

\* the occurrence at i touches an end of the text or a character that is
\* not a word character, on both sides
FreeAt(text, i, term) ==
    /\ OccursAt(text, i, term)
    /\ (i = 1 \/ ~IsWordChar(text[i - 1]))
    /\ (i + Len(term) = Len(text) + 1 \/ ~IsWordChar(text[i + Len(term)]))

IsWord(term) == term # <<>> /\ \A k \in 1..Len(term) : IsWordChar(term[k])

\* the translation of a whole word: its entry's, or the word itself
WordOut(word, g) ==
    IF \E k \in 1..Len(g) : g[k][1] = word
    THEN g[CHOOSE k \in 1..Len(g) : g[k][1] = word][2]
    ELSE word

\* text from position i on, word being the word characters read since the
\* last character that is not one: every whole word through WordOut, the
\* other characters as they are
RECURSIVE Wordwise(_, _, _, _)
Wordwise(text, i, word, g) ==
    IF i > Len(text) THEN WordOut(word, g)
    ELSE IF IsWordChar(text[i])
         THEN Wordwise(text, i + 1, Append(word, text[i]), g)
         ELSE WordOut(word, g) \o <<text[i]>> \o Wordwise(text, i + 1, <<>>, g)

\* the terms of g that are not one word do not occur in text, and no
\* translation of g holds a term of g
PlainWords(text, g) ==
    /\ \A k \in 1..Len(g) : IsWord(g[k][1]) \/ ~TermIn(text, g[k][1])
    /\ \A k, l \in 1..Len(g) : ~TermIn(g[l][2], g[k][1])

\* C12: a text in which no term occurs between characters that are not word
\* characters (or ends of the text) comes back unchanged, so a term inside a
\* larger word is not replaced; and under a glossary of plain words exactly
\* the whole words that are terms are replaced, every other character kept
C12_WordBoundary ==
    gPc # "idle" =>
        /\ (\A k \in 1..Len(gGlossary), i \in 1..Len(gText) :
                ~FreeAt(gText, i, gGlossary[k][1]))
            => gOut = gText
        /\ PlainWords(gText, gGlossary) => gOut = Wordwise(gText, 1, <<>>, gGlossary)

\* "Doomsday Doom" under main's glossary: the second Doom alone is replaced
C12_Witness ==
    /\ gPc = "once"
    /\ gGlossary = DefaultGlossary
    /\ gText = DoomsdayDoom
    /\ gOut = Doomsday \o <<" ">> \o DefaultGlossary[3][2]

\* ------------------------------------------------------------ claim C13

PairSet(g) == {g[k] : k \in 1..Len(g)}

Place(g, e) == CHOOSE k \in 1..Len(g) : g[k] = e

\* the same pairs, and those with terms of equal length in the same order
SameTies(g, h) ==
    /\ PairSet(g) = PairSet(h)
    /\ \A e, f \in PairSet(g) :
           Len(e[1]) = Len(f[1]) => (Place(g, e) < Place(g, f) <=> Place(h, e) < Place(h, f))

\* the occurrences of term in text from position i on that re.sub replaces:
\* the free ones, left to right, none overlapping the one before
RECURSIVE FreeCount(_, _, _)
FreeCount(text, i, term) ==
    IF i > Len(text) THEN 0
    ELSE IF FreeAt(text, i, term)
         THEN 1 + FreeCount(text, i + Len(term), term)
         ELSE FreeCount(text, i + 1, term)

RECURSIVE CountChar(_, _)
CountChar(text, c) ==
    IF text = <<>> THEN 0
    ELSE (IF Head(text) = c THEN 1 ELSE 0) + CountChar(Tail(text), c)

\* entry k holds the one longest term of g, and the first character of its
\* translation is in no term, in no other translation and not in text
LongestMarked(text, g, k) ==
    /\ g[k][1] # <<>> /\ g[k][2] # <<>>
    /\ \A l \in 1..Len(g) :
           l # k => /\ Len(g[l][1]) < Len(g[k][1])
                    /\ CountChar(g[l][2], g[k][2][1]) = 0
    /\ \A l \in 1..Len(g) : CountChar(g[l][1], g[k][2][1]) = 0
    /\ CountChar(text, g[k][2][1]) = 0

C20_Idempotent == gPc = "twice" => gAgain = gOut

\* ----------------------------------------------------------- converter.py

FIELDS == <<"code", "name", "subname", "text", "traits", "flavor",
            "back_text", "back_flavor">>

DotJson == <<".", "j", "s", "o", "n">>

\* filename.endswith(suffix)
EndsWith(name, suffix) ==
    /\ Len(name) >= Len(suffix)
    /\ SubSeq(name, Len(name) - Len(suffix) + 1, Len(name)) = suffix

\* an element of a JSON list: an object, or a value without .get
Obj(card) == [isObject |-> TRUE, value |-> card]
NotObj == [isObject |-> FALSE, value |-> EmptyDict]

\* the entries of SOURCE_FOLDER: kind is what json.load(f) does with the
\* file ("dict", "list", "other": the value it returns; "invalid": it raises
\* JSONDecodeError; "undecodable": the bytes are not UTF-8, f.read() raises
\* UnicodeDecodeError)
SrcList == [name |-> <<"a">> \o DotJson, kind |-> "list",
            value |-> <<Obj(CardA), Obj(CardB)>>]
SrcDict == [name |-> <<"b">> \o DotJson, kind |-> "dict", value |-> CardC]
SrcInvalid == [name |-> <<"c">> \o DotJson, kind |-> "invalid", value |-> <<>>]
SrcOther == [name |-> <<"d">> \o DotJson, kind |-> "other", value |-> <<>>]
SrcUndecodable == [name |-> <<"e">> \o DotJson, kind |-> "undecodable",
                   value |-> <<>>]
SrcNumbers == [name |-> <<"f">> \o DotJson, kind |-> "list",
               value |-> <<Obj(CardC), NotObj>>]
SrcText == [name |-> <<"n", ".", "t", "x", "t">>, kind |-> "list",
            value |-> <<Obj(CardC)>>]
SourceFolder ==
    {SrcList, SrcDict, SrcInvalid, SrcOther, SrcUndecodable, SrcNumbers, SrcText}

\* the most entries os.listdir returns
MaxListing == 3

\* os.listdir(SOURCE_FOLDER): some entries, each once, in any order
Listings ==
    {l \in UNION {[1..n -> SourceFolder] : n \in 0..MaxListing} :
        \A i, j \in 1..Len(l) : i # j => l[i].name # l[j].name}

\* isinstance(data, dict): only a list is taken, an object gives no item
ConvItemsListOnly(entry) == IF entry.kind = "dict" THEN <<>> ELSE entry.value

\* items = [data] for a dict, data for a list
ConvItems(entry) ==
    IF entry.kind = "dict" THEN <<Obj(entry.value)>> ELSE entry.value

\* row = {field: item.get(field, "") for field in FIELDS}
ConvRow(item) ==
    [f \in {FIELDS[k] : k \in 1..Len(FIELDS)} |->
        IF f \in DOMAIN item THEN item[f] ELSE Str(<<>>)]

\* csv.DictWriter: a cell is "" for None, the str itself, str(value) else
CsvCell(v) == IF v.tag = "null" THEN <<>> ELSE PyStr(v)

\* the cells of one row, in the order of fieldnames
CsvLine(row) == [k \in 1..Len(FIELDS) |-> CsvCell(row[FIELDS[k]])]

\* rows.append(row) for the items before the first that is no object
RECURSIVE ConvRowsOf(_, _)
ConvRowsOf(items, i) ==
    IF i > Len(items) \/ ~items[i].isObject THEN <<>>
    ELSE <<ConvRow(items[i].value)>> \o ConvRowsOf(items, i + 1)

\* a listing, before json_to_csv is called
ConvInit ==
    /\ PipeInit
    /\ keepHistory = FALSE
    /\ CacheIdle
    /\ GlossIdle
    /\ cvListing \in Listings
    /\ cvIdx = 0
    /\ cvRows = <<>>
    /\ cvCsv = NotWritten
    /\ cvPc = "idle"

CvEntry == cvListing[cvIdx]

\* rows = []; os.makedirs; the loop over os.listdir begins
conv_begin ==
    /\ cvPc = "idle"
    /\ cvIdx' = 1
    /\ cvRows' = <<>>
    /\ cvPc' = "loop"
    /\ UNCHANGED <<pipe, cachev, glossv, cvListing, cvCsv>>

\* filename does not end with ".json"
conv_not_json ==
    /\ cvPc = "loop" /\ cvIdx <= Len(cvListing)
    /\ ~EndsWith(CvEntry.name, DotJson)
    /\ cvIdx' = cvIdx + 1
    /\ UNCHANGED <<pipe, cachev, glossv, cvListing, cvRows, cvCsv, cvPc>>

\* json.load raises JSONDecodeError: print, continue
conv_invalid_json ==
    /\ cvPc = "loop" /\ cvIdx <= Len(cvListing)
    /\ EndsWith(CvEntry.name, DotJson)
    /\ CvEntry.kind = "invalid"
    /\ cvIdx' = cvIdx + 1
    /\ UNCHANGED <<pipe, cachev, glossv, cvListing, cvRows, cvCsv, cvPc>>

\* json.load raises an error that is no JSONDecodeError: nothing catches it
conv_read_raises ==
    /\ cvPc = "loop" /\ cvIdx <= Len(cvListing)
    /\ EndsWith(CvEntry.name, DotJson)
    /\ CvEntry.kind = "undecodable"
    /\ cvPc' = "crashed"
    /\ UNCHANGED <<pipe, cachev, glossv, cvListing, cvIdx, cvRows, cvCsv>>

\* data is neither a dict nor a list: print, continue
conv_unsupported ==
    /\ cvPc = "loop" /\ cvIdx <= Len(cvListing)
    /\ EndsWith(CvEntry.name, DotJson)
    /\ CvEntry.kind = "other"
    /\ cvIdx' = cvIdx + 1
    /\ UNCHANGED <<pipe, cachev, glossv, cvListing, cvRows, cvCsv, cvPc>>

\* the loop over items: a row per item; item.get of an item that is no
\* object raises AttributeError, which nothing catches
conv_rows ==
    /\ cvPc = "loop" /\ cvIdx <= Len(cvListing)
    /\ EndsWith(CvEntry.name, DotJson)
    /\ CvEntry.kind \in {"dict", "list"}
    /\ cvRows' = cvRows \o ConvRowsOf(ConvItems(CvEntry), 1)
    /\ IF \A k \in 1..Len(ConvItems(CvEntry)) : ConvItems(CvEntry)[k].isObject
       THEN cvIdx' = cvIdx + 1 /\ cvPc' = "loop"
       ELSE cvIdx' = cvIdx /\ cvPc' = "crashed"
    /\ UNCHANGED <<pipe, cachev, glossv, cvListing, cvCsv>>

\* the loop is over: writer.writeheader(); writer.writerows(rows)
conv_write ==
    /\ cvPc = "loop" /\ cvIdx > Len(cvListing)
    /\ cvCsv' = Written([header |-> FIELDS,
                          rows |-> [k \in 1..Len(cvRows) |-> CsvLine(cvRows[k])]])
    /\ cvPc' = "done"
    /\ UNCHANGED <<pipe, cachev, glossv, cvListing, cvIdx, cvRows>>

ConvNext ==
    \/ conv_begin
    \/ conv_not_json
    \/ conv_invalid_json
    \/ conv_read_raises
    \/ conv_unsupported
    \/ conv_rows
    \/ conv_write

SpecConverter == ConvInit /\ [][ConvNext]_vars

\* ---------------------------------------------------- claims C14 and C15

\* the JSON of the entry is a single object or a list of objects
ObjectOrObjects(entry) ==
    /\ EndsWith(entry.name, DotJson)
    /\ \/ entry.kind = "dict"
       \/ /\ entry.kind = "list"
          /\ \A k \in 1..Len(entry.value) : entry.value[k].isObject

\* its records
RecordsOf(entry) ==
    IF entry.kind = "dict" THEN <<entry.value>>
    ELSE [k \in 1..Len(entry.value) |-> entry.value[k].value]

\* the text of a value: the characters of a string, the digits of a
\* number, nothing for null
TextOf(v) == IF v.tag = "null" THEN <<>> ELSE v.chars

\* the row of a record: per configured field the text of its value, the
\* empty string for a field the record lacks
LineOf(rec) ==
    [k \in 1..Len(FIELDS) |->
        IF FIELDS[k] \in DOMAIN rec THEN TextOf(rec[FIELDS[k]]) ELSE <<>>]

\* a row per record of the entries from place i on that are a single
\* object or a list of objects, in the order of the listing
RECURSIVE LinesFrom(_, _)
LinesFrom(listing, i) ==
    IF i > Len(listing) THEN <<>>
    ELSE (IF ObjectOrObjects(listing[i])
          THEN [k \in 1..Len(RecordsOf(listing[i])) |->
                   LineOf(RecordsOf(listing[i])[k])]
          ELSE <<>>)
         \o LinesFrom(listing, i + 1)

\* C14: when json_to_csv has run, the CSV holds the header of the 8
\* configured fields and, for every source file that is a single object or
\* a list of objects, one row per record, with the text of the record's
\* value for each field it has and the empty string for each it lacks
C14_RowPerRecord ==
    cvPc = "done" =>
        /\ cvCsv.written
        /\ cvCsv.content.header = FIELDS
        /\ Len(cvCsv.content.header) = 8
        /\ cvCsv.content.rows = LinesFrom(cvListing, 1)

\* a single object and a list of two objects, records that lack fields
C14_Witness ==
    /\ cvPc = "done"
    /\ cvListing = <<SrcDict, SrcList>>
    /\ Len(cvCsv.content.rows) = 3
    /\ cvCsv.content.rows[1][2] = <<>>
    /\ cvCsv.content.rows[2][2] = Doom
    /\ cvCsv.content.rows[2][6] = <<>>

\* the JSON of the entry is invalid, or its top-level value is neither an
\* object nor a list
BadSource(entry) ==
    /\ EndsWith(entry.name, DotJson)
    /\ entry.kind \in {"invalid", "undecodable", "other"}

\* C15: no source file with invalid JSON, or with a top-level value that is
\* neither an object nor a list, aborts the conversion, and the CSV holds
\* the rows of the other files and none for it
C15_BadSourceIsSkipped ==
    /\ cvPc = "crashed" => ~BadSource(CvEntry)
    /\ cvPc = "done" =>
           /\ cvCsv.written
           /\ Len(cvCsv.content.rows)
                = Len(LinesFrom(SelectSeq(cvListing, LAMBDA e : ~BadSource(e)), 1))

\* ------------------------------------------------------------ claim C16

\* C16: every attempt of the running call that did not return was followed
\* by a sleep of RETRY_BACKOFF * 2^(attempt-1) seconds, so each delay is
\* twice the one before and no attempt follows another without a delay
C16_EveryFailedAttemptSleeps ==
    \A i \in 1..Len(tries) :
        /\ tries[i].slept = RETRY_BACKOFF * (2 ^ (tries[i].attempt - 1))
        /\ tries[i].slept > 0
        /\ i > 1 => tries[i].slept = 2 * tries[i - 1].slept

\* ------------------------------------------------------------ claim C17

\* C17: a get that is a hit for a triple returns what was stored for that
\* very triple: the last set of its key was called with the same model,
\* field and source text
C17_HitIsOfTheSameTriple ==
    (lastOp.op = "get" /\ Truthy(lastOp.result)) =>
        \E o \in owner :
            /\ o.key = LastKey
            /\ o.m = lastOp.m /\ o.field = lastOp.field /\ o.src = lastOp.src

\* ------------------------------------------------------------ claim C18

\* translator.py before its first run, the history of the runs being kept
RerunInit ==
    /\ PipeInit
    /\ keepHistory = TRUE
    /\ CacheIdle
    /\ GlossIdle
    /\ ConvIdle

\* runs of the default model that write their files and set no rate
RerunNext ==
    \/ \E packs \in PacksFilters : main_start(packs, DEFAULT_MODEL, FALSE, 0)
    \/ process_file_unreadable
    \/ process_file_not_list
    \/ process_file_begin
    \/ main_done
    \/ field_skip
    \/ field_cache_hit
    \/ field_cache_miss(0)
    \/ write_outputs
    \/ \E raw \in RawResponses : responses_output_text(raw)
    \/ \E raw \in RawResponses : responses_choices(raw)
    \/ responses_no_text
    \/ responses_raise
    \/ \E raw \in RawResponses : chat_text(raw)
    \/ chat_raise

SpecRerun == RerunInit /\ [][RerunNext]_vars

\* C18: what a run has translated is in the cache at once, so also when the
\* run is aborted; and the run after an aborted run, on the same cache,
\* requests no translation for a field the aborted run had translated
C18_AbortedRunIsNotRepeated ==
    /\ \A k \in runKeys \cup abortedKeys : \E r \in cache : r.key = k
    /\ Requesting => CurKey \notin abortedKeys

\* ------------------------------------------------------------ claim C19

InFile == pc \in {"field", "responses", "chat", "write"}

\* the requests of the attempts that did not return: one, and the fallback
\* when the first raised
RECURSIVE RequestsOf(_)
RequestsOf(log) ==
    IF log = <<>> THEN 0
    ELSE (IF Head(log).outcome = "raised" THEN 2 ELSE 1) + RequestsOf(Tail(log))

\* the fields process_file has yet to go through, the one it is at included
FieldsLeft ==
    (Len(data) - cardIdx) * Len(TRANSLATABLE_FIELDS)
    + (Len(TRANSLATABLE_FIELDS) - fieldIdx) + 1

\* what is left of process_file: the fields, and within a call the requests
\* the call can still make
WorkLeft ==
    CASE pc = "write" -> 0
      [] pc = "field" -> FieldsLeft * (2 * MAX_RETRIES + 2) + 2 * MAX_RETRIES + 1
      [] pc = "responses" ->
             FieldsLeft * (2 * MAX_RETRIES + 2) + 2 * (MAX_RETRIES - attempt) + 1
      [] pc = "chat" ->
             FieldsLeft * (2 * MAX_RETRIES + 2) + 2 * (MAX_RETRIES - attempt)
      [] OTHER -> 0

\* C19: a call is at one of its MAX_RETRIES attempts and has made one
\* request per attempt and a second one for each attempt whose first raised,
\* at most 2 * MAX_RETRIES when it raises; and every step of process_file
\* either ends it or leaves less work, the work left never being negative:
\* every call and every process_file ends, whatever the service answers
C19_Terminates ==
    /\ [](Requesting =>
             /\ attempt \in 1..MAX_RETRIES
             /\ Len(tries) = attempt - 1
             /\ requests = RequestsOf(tries) + (IF pc = "chat" THEN 1 ELSE 0)
             /\ requests + 1 <= 2 * attempt)
    /\ [](pc = "crashed" => attempt = MAX_RETRIES /\ requests <= 2 * MAX_RETRIES)
    /\ [](InFile => WorkLeft >= 0)
    /\ [][InFile => (\/ pc' \in {"main", "crashed"}
                     \/ (InFile' /\ WorkLeft' < WorkLeft))]_vars

\* a call that raises after MAX_RETRIES attempts of two requests each
C19_Witness ==
    /\ pc = "crashed"
    /\ Len(tries) = MAX_RETRIES
    /\ requests = 2 * MAX_RETRIES


====
